---------------------------- MODULE Spec2Model ----------------------------
(***************************************************************************)
(* Model of src/M3U_Installer_Monitor.py: the error ledger                 *)
(* (ErrorTracker), the step log (audit["steps"], add_step), the retry      *)
(* runner (run_installer_with_retries) and the orchestrator (main).        *)
(*                                                                         *)
(* Timestamps (datetime.now()) are left out of the records: no branch of   *)
(* the program reads them.  safe_log only writes a log line and swallows   *)
(* its own I/O errors, so it is not a state change of the model.           *)
(* A formatted message (an f-string) is modelled as a record of the fixed  *)
(* text and of the values formatted into it.                               *)
(***************************************************************************)
EXTENDS Integers, Sequences, FiniteSets, TLC

\* ------------------------------------------------------------------------
\* Bounds of the model
\* ------------------------------------------------------------------------
\* largest max_attempts a direct call of run_installer_with_retries is given
MaxAttemptsBound == 3
\* the child's exit codes are drawn from 0..MaxExitCode
MaxExitCode == 1
\* at most MaxEmpty of the files found at verification are empty
MaxEmpty == 1
\* datetime.now() at report time is drawn from 1..MaxTime
MaxTime == 2
\* a client of the module adds at most MaxRecords errors, warnings and steps
MaxRecords == 2

\* ------------------------------------------------------------------------
\* Program constants
\* ------------------------------------------------------------------------
\* max_wait = 300 (polls of one attempt)
max_wait == 300
\* time.sleep(5) between a failed attempt and the next one
BackoffSeconds == 5
\* run_installer_with_retries(max_attempts=3) as main calls it
MainMaxAttempts == 3

ExitCodes == 0..MaxExitCode

\* Exceptions subprocess.Popen can raise: the command is missing, the OS
\* refuses, or subprocess.CREATE_NEW_CONSOLE does not exist (not Windows).
LaunchExceptions == {"FileNotFoundError", "AttributeError"}

\* Categories the program passes to add_error / increment_retry
Categories ==
  {"Network", "Diagnostics", "Installer Verification", "Installer Encoding",
   "Installation Directory", "File Verification", "Installation",
   "Installation Verification", "Installer Execution", "Folder Creation",
   "Main Process"}

VARIABLES
  errors,        \* error_tracker.errors
  warnings,      \* error_tracker.warnings
  retries,       \* error_tracker.retries, read with .get(category, 0)
  steps,         \* audit["steps"]
  audit_success, \* audit["success"]
  audit_end_time, \* audit["end_time"] (0: None)
  installer,     \* the installer file BAT_FILE as verify_installer saw it
  verification,  \* the dictionary verify_installation_comprehensive returned
  snapshot,      \* the install directory as the verification read it
  exists_checks, \* history: number of full_path.exists() calls
  reports,       \* history: every report generate_comprehensive_report built
  pc,            \* position of the single thread of control
  max_attempts,  \* parameter of run_installer_with_retries
  attempt,       \* loop variable of run_installer_with_retries (0: not bound yet)
  i,             \* loop variable of the polling loop
  proc,          \* what proc.poll() last returned for the current child
  orphans,       \* children of earlier attempts that are still running
  installation_success, \* value returned by run_installer_with_retries
  launches,      \* history: number of subprocess.Popen calls
  outcomes,      \* history: classified outcome of every finished attempt
  backoff_log    \* history: every time.sleep(5), as <<attempt, seconds>>

vars == <<errors, warnings, retries, steps, audit_success, audit_end_time,
          installer, verification, snapshot, exists_checks, reports, pc,
          max_attempts, attempt, i, proc, orphans, installation_success,
          launches, outcomes, backoff_log>>

\* what only the orchestrator and its steps write
orchestrator == <<audit_success, audit_end_time, installer, verification,
                  snapshot, exists_checks, reports>>

ledger == <<errors, warnings, retries, steps>>
history == <<launches, outcomes, backoff_log>>

\* ------------------------------------------------------------------------
\* Values
\* ------------------------------------------------------------------------
\* a formatted message: fixed text, the attempt, the exit code and the
\* exception text formatted into it (0 / "" where the text has no such hole)
Msg(text, n, code, exc) == [text |-> text, n |-> n, code |-> code, exc |-> exc]
NoMsg == Msg("", 0, 0, "")

\* what proc.poll() returns: None while the child runs, else its exit code
PollNone == [exited |-> FALSE, code |-> 0]
Exited(c) == [exited |-> TRUE, code |-> c]
PollResults == {PollNone} \cup {Exited(c) : c \in ExitCodes}
\* no child: before the first launch, and after an attempt is over
NoProc == [exited |-> TRUE, code |-> 0]

\* ------------------------------------------------------------------------
\* Inputs of the orchestrator's steps
\* ------------------------------------------------------------------------
\* EXPECTED_FILES
EXPECTED_FILES ==
  <<"main.py", "gemini_api.py", "imdb_scraper.py", "requirements.txt",
    "build_installer.py", "weebly_player_full.html", "player/player-logic.js",
    "themes/dark.json", "themes/neon.json", "electron_app/main.js",
    "electron_app/preload.js", "electron_app/package.json">>

\* the installer file: does it exist, can it be read at all, its size, is it
\* UTF-8 text, and how many of the 4 key markers it holds
InstallerFile(ex, rd, size, dec, markers) ==
  [exists |-> ex, readable |-> rd, size |-> size, decodable |-> dec,
   markers |-> markers]
NoInstaller == InstallerFile(FALSE, FALSE, 0, FALSE, 0)
InstallerFiles ==
  { NoInstaller,
    InstallerFile(TRUE, TRUE, 0, TRUE, 0),
    InstallerFile(TRUE, TRUE, 99, TRUE, 2),
    InstallerFile(TRUE, TRUE, 100, TRUE, 1),
    InstallerFile(TRUE, TRUE, 100, TRUE, 4),
    InstallerFile(TRUE, TRUE, 99, FALSE, 0),
    InstallerFile(TRUE, TRUE, 100, FALSE, 0),
    InstallerFile(TRUE, FALSE, 100, FALSE, 0) }

\* the install directory at verification time: does it exist, can it be
\* walked, and for each manifest entry "absent", "empty" (0 bytes) or "data"
Snapshot(dir, walk, files) == [dir |-> dir, walkable |-> walk, files |-> files]
NoSnapshot ==
  Snapshot(FALSE, FALSE, [k \in 1..Len(EXPECTED_FILES) |-> "absent"])

\* m manifest entries present, the first or the last m of the manifest, the
\* first e of them empty
FilesPresent(m, fromEnd, e) ==
  [k \in 1..Len(EXPECTED_FILES) |->
     LET K == Len(EXPECTED_FILES)
         first == IF fromEnd THEN K - m + 1 ELSE 1
     IN IF k < first \/ k >= first + m THEN "absent"
        ELSE IF k < first + e THEN "empty" ELSE "data"]

\* numbers of present files around the decisions of the verification:
\* none, a missing count just above 5 and one of 5, all
PresentCounts ==
  LET K == Len(EXPECTED_FILES) IN {0, K - 6, K - 5, K}

Snapshots ==
  { Snapshot(FALSE, TRUE, NoSnapshot.files),
    Snapshot(TRUE, FALSE, NoSnapshot.files) } \cup
  { Snapshot(TRUE, TRUE, FilesPresent(m, fromEnd, e)) :
      m \in PresentCounts, fromEnd \in BOOLEAN, e \in 0..MaxEmpty }

NoVerification ==
  [done |-> FALSE, files_found |-> <<>>, files_missing |-> <<>>,
   files_partial |-> <<>>, total_expected |-> Len(EXPECTED_FILES)]

\* datetime.now() at report time: the first report is built at instant 1
\* (the start is 0), a later one at the same instant or after it
Times == 1..MaxTime

\* ------------------------------------------------------------------------
\* ErrorTracker
\* ------------------------------------------------------------------------
get_retry_count(rets, category) == rets[category]

\* a counter that is set instead of incremented
increment_retry_sets(rets, category) == [rets EXCEPT ![category] = 1]

increment_retry(rets, category) ==
  [rets EXCEPT ![category] = get_retry_count(rets, category) + 1]

\* a record that does not read the retry counter
add_error_without_retries(errs, rets, category, error, severity, suggestion) ==
  Append(errs, [category    |-> category,
                error       |-> error,
                severity    |-> severity,
                suggestion  |-> suggestion,
                retry_count |-> 0])

add_error(errs, rets, category, error, severity, suggestion) ==
  Append(errs, [category    |-> category,
                error       |-> error,
                severity    |-> severity,
                suggestion  |-> suggestion,
                retry_count |-> get_retry_count(rets, category)])

\* "self.warnings = [warning_data]": the list is replaced, not extended
add_warning_replaces(warns, category, warning, suggestion) ==
  << [category   |-> category,
      warning    |-> warning,
      suggestion |-> suggestion] >>

add_warning(warns, category, warning, suggestion) ==
  Append(warns, [category   |-> category,
                 warning    |-> warning,
                 suggestion |-> suggestion])

\* add_step(name, status="RUNNING", details="", attempt=1); n is the attempt
\* number formatted into the name (0 for a name without one)
add_step(st, name, n, status, details, att) ==
  Append(st, [name    |-> name,
              n       |-> n,
              status  |-> status,
              details |-> details,
              attempt |-> att])

DefaultAttempt == 1

\* ------------------------------------------------------------------------
\* run_installer_with_retries
\* ------------------------------------------------------------------------
RunnerStepName == "Run installer - Attempt"

\* a severity that never escalates
AttemptSeverityNeverEscalates(att, maxa) == "MEDIUM"

\* "HIGH" if attempt == max_attempts else "MEDIUM"
AttemptSeverity(att, maxa) == IF att = maxa THEN "HIGH" ELSE "MEDIUM"

\* "if not return_code": None counts as success too
IsSuccessCodeFalsy(rc) == ~rc.exited \/ rc.code = 0

\* return_code == 0
IsSuccessCode(rc) == rc.exited /\ rc.code = 0

\* f"Exit code: {return_code}" if return_code is not None else "Timed out"
status_msg(rc) ==
  IF rc.exited THEN Msg("Exit code", 0, rc.code, "") ELSE Msg("Timed out", 0, 0, "")

\* history: what the child of an attempt had done when line 389 polled it
Classify(rc) ==
  IF ~rc.exited THEN "TIMEOUT"
  ELSE IF rc.code = 0 THEN "SUCCESS" ELSE "NONZERO_EXIT"

\* the classes among them that derive from Exception
ExceptionSubclasses ==
  {"FileNotFoundError", "OSError", "AttributeError", "EOFError"}

\* a handler that names OSError only lets AttributeError through
CatchesOSErrorOnly(e) == e \in {"FileNotFoundError", "OSError"}

\* except Exception
Catches(e) == e \in ExceptionSubclasses

\* for i in range(max_wait): one more iteration follows i completed ones
PollLoopContinues(done) == done < max_wait

\* a failure branch that returns False at the first failure
RunnerAfterFailureGivesUp ==
  /\ installation_success' = "False"
  /\ pc' = "r_return"
  /\ UNCHANGED backoff_log

\* "attempt <= max_attempts": sleeps after the last attempt as well
RunnerAfterFailureOffByOne ==
  IF attempt <= max_attempts
    THEN /\ backoff_log' = Append(backoff_log, <<attempt, BackoffSeconds>>)
         /\ pc' = "r_for"
         /\ UNCHANGED installation_success
    ELSE /\ installation_success' = "False"
         /\ pc' = "r_return"
         /\ UNCHANGED backoff_log

\* The end of an attempt that failed: wait and go to the next attempt, or
\* return False.
RunnerAfterFailure ==
  IF attempt < max_attempts
    THEN /\ backoff_log' = Append(backoff_log, <<attempt, BackoffSeconds>>)
         /\ pc' = "r_for"
         /\ UNCHANGED installation_success
    ELSE /\ installation_success' = "False"
         /\ pc' = "r_return"
         /\ UNCHANGED backoff_log

\* a success branch without its return: the loop goes on
RunnerAfterSuccessContinues ==
  /\ pc' = "r_for"
  /\ UNCHANGED <<errors, backoff_log, installation_success>>

\* return_code == 0: add_step SUCCESS was called, return True
RunnerAfterSuccess ==
  /\ installation_success' = "True"
  /\ pc' = "r_return"
  /\ UNCHANGED <<errors, backoff_log>>

\* "except Exception: pass": the crash leaves no record
ErrorsAfterCrashDropped(e) == errors

\* the add_error of the except branch (the text of the exception, str(e),
\* is left out of the message)
ErrorsAfterCrash(e) ==
  add_error(errors, retries, "Installer Execution",
            Msg("Attempt crashed", attempt, 0, ""),
            AttemptSeverity(attempt, max_attempts), "")

\* for attempt in range(1, max_attempts + 1): increment_retry, add_step
\* RUNNING; the loop exhausted: return False
RunnerFor ==
  /\ pc = "r_for"
  /\ IF attempt < max_attempts
       THEN /\ attempt' = attempt + 1
            /\ retries' = increment_retry(retries, "Installer Execution")
            /\ steps' = add_step(steps, RunnerStepName, attempt + 1, "RUNNING",
                                 NoMsg, attempt + 1)
            /\ pc' = "r_popen"
            /\ UNCHANGED installation_success
       ELSE /\ installation_success' = "False"
            /\ pc' = "r_return"
            /\ UNCHANGED <<attempt, retries, steps>>
  /\ UNCHANGED <<errors, warnings, orchestrator, max_attempts, i, proc,
                 orphans, history>>

\* subprocess.Popen returns the child
RunnerPopenOk ==
  /\ pc = "r_popen"
  /\ launches' = launches + 1
  /\ proc' = PollNone
  /\ i' = 0
  /\ pc' = IF PollLoopContinues(0) THEN "r_wait" ELSE "r_check"
  /\ UNCHANGED <<ledger, orchestrator, max_attempts, attempt, orphans,
                 installation_success, outcomes, backoff_log>>

\* subprocess.Popen raises e: the except branch, or e leaves the function
RunnerPopenRaises(e) ==
  /\ pc = "r_popen"
  /\ launches' = launches + 1
  /\ IF Catches(e)
       THEN /\ errors' = ErrorsAfterCrash(e)
            /\ outcomes' = Append(outcomes, "CRASH")
            /\ RunnerAfterFailure
       ELSE /\ pc' = "raised"
            /\ UNCHANGED <<errors, outcomes, backoff_log, installation_success>>
  /\ UNCHANGED <<warnings, retries, steps, orchestrator, max_attempts,
                 attempt, i, proc, orphans>>

\* one iteration of the polling loop: time.sleep(1), proc.poll() returns
\* obs, break if it is not None.  i is dead once the loop is left and is
\* reset, so that states differing only in it are one state.  The progress
\* line logged when i % 30 == 0 is a safe_log call and changes no state.
RunnerPoll(obs) ==
  /\ pc = "r_wait"
  /\ proc' = obs
  /\ IF obs.exited
       THEN /\ pc' = "r_check"
            /\ i' = 0
       ELSE IF PollLoopContinues(i + 1)
         THEN /\ pc' = "r_wait"
              /\ i' = i + 1
         ELSE /\ pc' = "r_check"
              /\ i' = 0
  /\ UNCHANGED <<ledger, orchestrator, max_attempts, attempt, orphans,
                 installation_success, history>>

\* return_code = proc.poll() returns obs, and the branch on it; a child that
\* had exited keeps its exit code, one that had not may have exited since
\* the last poll of the loop.  A child that has still not exited is left
\* running.
RunnerCheck(obs) ==
  /\ pc = "r_check"
  /\ proc.exited => obs = proc
  /\ LET return_code == obs IN
       /\ outcomes' = Append(outcomes, Classify(return_code))
       /\ orphans' = IF return_code.exited THEN orphans ELSE orphans + 1
       /\ proc' = NoProc
       /\ IF IsSuccessCode(return_code)
            THEN /\ steps' = add_step(steps, RunnerStepName, attempt, "SUCCESS",
                                      Msg("Completed on attempt", attempt, 0, ""),
                                      DefaultAttempt)
                 /\ RunnerAfterSuccess
            ELSE /\ steps' = add_step(steps, RunnerStepName, attempt, "FAILED",
                                      status_msg(return_code), DefaultAttempt)
                 /\ errors' = add_error(errors, retries, "Installer Execution",
                                 [status_msg(return_code) EXCEPT !.n = attempt],
                                 AttemptSeverity(attempt, max_attempts),
                                 IF attempt < max_attempts
                                   THEN "Retrying" ELSE "All retries exhausted")
                 /\ RunnerAfterFailure
  /\ UNCHANGED <<warnings, retries, orchestrator, max_attempts, attempt, i,
                 launches>>

\* the environment: a child left running by a timed-out attempt exits while
\* the runner waits before the next attempt (the program never looks at such
\* a child again, so an exit at any other moment changes nothing it sees)
OrphanExit ==
  /\ pc = "r_for"
  /\ attempt < max_attempts
  /\ orphans > 0
  /\ orphans' = orphans - 1
  /\ UNCHANGED <<ledger, orchestrator, pc, max_attempts, attempt, i, proc,
                 installation_success, history>>

RunnerStep ==
  \/ RunnerFor
  \/ RunnerPopenOk
  \/ \E e \in LaunchExceptions : RunnerPopenRaises(e)
  \/ \E obs \in PollResults : RunnerPoll(obs)
  \/ \E obs \in PollResults : RunnerCheck(obs)

Environment == OrphanExit

\* ------------------------------------------------------------------------
\* A direct call run_installer_with_retries(max_attempts) on a fresh ledger
\* ------------------------------------------------------------------------
InitLedger ==
  /\ errors = <<>>
  /\ warnings = <<>>
  /\ retries = [c \in Categories |-> 0]
  /\ steps = <<>>

\* audit = {..., "end_time": None, "success": True}; nothing verified yet
InitOrchestrator ==
  /\ audit_success = TRUE
  /\ audit_end_time = 0
  /\ installer = NoInstaller
  /\ verification = NoVerification
  /\ snapshot = NoSnapshot
  /\ exists_checks = 0
  /\ reports = <<>>

InitRunnerState ==
  /\ attempt = 0
  /\ i = 0
  /\ proc = NoProc
  /\ orphans = 0
  /\ installation_success = "none"
  /\ launches = 0
  /\ outcomes = <<>>
  /\ backoff_log = <<>>

InitRunner ==
  /\ InitLedger
  /\ InitOrchestrator
  /\ InitRunnerState
  /\ max_attempts \in 0..MaxAttemptsBound
  /\ pc = "r_for"

NextRunner == RunnerStep \/ Environment

\* the program is a single thread that keeps running: it takes its next step
SpecRunner == InitRunner /\ [][NextRunner]_vars /\ WF_vars(RunnerStep)


\* ------------------------------------------------------------------------
\* generate_comprehensive_report
\* ------------------------------------------------------------------------
\* the categories a substring test "sub in category" accepts
Superstrings(sub) ==
  CASE sub = "Network" -> {"Network"}
    [] sub = "Installer" -> {"Installer Verification", "Installer Encoding",
                             "Installer Execution", "Installer Size",
                             "Installer Content"}
    [] sub = "Disk" -> {"Disk Space"}
    [] sub = "File Verification" -> {"File Verification"}
    [] OTHER -> {}
Contains(sub, category) == category \in Superstrings(sub)
AnyCategory(records, sub) ==
  \E j \in 1..Len(records) : Contains(sub, records[j].category)

\* the keys of a dictionary filled in the order of ks, in insertion order
RECURSIVE FirstKeys(_)
FirstKeys(ks) ==
  IF ks = <<>> THEN <<>>
  ELSE LET prev == FirstKeys(SubSeq(ks, 1, Len(ks) - 1))
           last == ks[Len(ks)]
       IN IF \E j \in 1..Len(prev) : prev[j] = last THEN prev
          ELSE Append(prev, last)

\* by_severity / by_category: <<key, count>> in insertion order
Tally(ks) ==
  LET keys == FirstKeys(ks)
  IN [j \in 1..Len(keys) |->
        <<keys[j], Cardinality({m \in 1..Len(ks) : ks[m] = keys[j]})>>]

\* the lines of one step under DETAILED STEPS
StepLine(st) ==
  [icon    |-> IF st.status = "SUCCESS" THEN "ok"
               ELSE IF st.status = "WARNING" THEN "warning" ELSE "cross",
   status  |-> st.status,
   name    |-> st.name,
   n       |-> st.n,
   details |-> st.details,
   attempt |-> IF st.attempt > 1 THEN st.attempt ELSE 0]

SuccessRecommendations ==
  <<"Installation completed successfully!", "Run: START M3U Matrix.bat">>

Recommendations(errs, warns, success) ==
  LET recs ==
        (IF AnyCategory(errs, "Network")
           THEN <<"Check your internet connection and firewall settings">>
           ELSE <<>>) \o
        (IF AnyCategory(errs, "Installer")
           THEN <<"Verify the installer file is complete and not corrupted">>
           ELSE <<>>) \o
        (IF AnyCategory(warns, "Disk")
           THEN <<"Free up disk space on your desktop drive">> ELSE <<>>) \o
        (IF AnyCategory(errs, "File Verification")
           THEN <<"The installer may be blocked from downloading files",
                  "Try running as Administrator",
                  "Check antivirus software isn't blocking the installation">>
           ELSE <<>>)
  IN IF recs # <<>> THEN recs
     ELSE IF success THEN SuccessRecommendations
     ELSE <<"Review the errors above and try again",
            "Contact support with the audit log">>

\* the report text, section by section
Report(errs, warns, sts, success, start, end) ==
  [start           |-> start,
   end             |-> end,
   duration        |-> end - start,
   success         |-> success,
   total_errors    |-> Len(errs),
   total_warnings  |-> Len(warns),
   by_severity     |-> Tally([j \in 1..Len(errs) |-> errs[j].severity]),
   by_category     |-> Tally([j \in 1..Len(errs) |-> errs[j].category]),
   steps           |-> [j \in 1..Len(sts) |-> StepLine(sts[j])],
   critical        |-> SelectSeq(errs,
                         LAMBDA e : e.severity \in {"HIGH", "CRITICAL"}),
   warnings        |-> warns,
   recommendations |-> Recommendations(errs, warns, success)]

\* generate_comprehensive_report() on the ledger errs and the verdict success:
\* it stamps audit["end_time"] with the clock and builds the report (the
\* report is returned whether or not REPORT_FILE could be written)
generate_comprehensive_report(errs, success) ==
  \E t \in Times :
    /\ t >= audit_end_time
    /\ audit_end_time = 0 => t = 1
    /\ audit_end_time' = t
    /\ reports' = Append(reports, Report(errs, warnings, steps, success, 0, t))

\* ------------------------------------------------------------------------
\* run_system_diagnostics
\* ------------------------------------------------------------------------
\* raises: where the body raises ("none", "disk_usage", "save"); disk_full:
\* disk.percent > 90; internet: requests.get succeeded
run_system_diagnostics(raises, disk_full, internet) ==
  LET st1 == add_step(steps, "Run system diagnostics", 0, "RUNNING", NoMsg,
                      DefaultAttempt)
      w1 == IF raises # "disk_usage" /\ disk_full
              THEN add_warning(warnings, "Disk Space", Msg("Low disk space", 0, 0, ""),
                               "Free up space on your desktop drive")
              ELSE warnings
      e1 == IF raises # "disk_usage" /\ ~internet
              THEN add_error(errors, retries, "Network",
                             Msg("No internet connection", 0, 0, ""), "HIGH",
                             "Check your internet connection and try again")
              ELSE errors
  IN /\ warnings' = w1
     /\ IF raises = "none"
          THEN /\ errors' = e1
               /\ steps' = add_step(st1, "Run system diagnostics", 0, "SUCCESS",
                                    Msg("Saved to", 0, 0, ""), DefaultAttempt)
          ELSE /\ errors' = add_error(e1, retries, "Diagnostics",
                                      Msg("exception", 0, 0, raises), "LOW", "")
               /\ steps' = add_step(st1, "Run system diagnostics", 0, "FAILED",
                                    Msg("exception", 0, 0, raises), DefaultAttempt)

\* the host: healthy, disk nearly full, offline, psutil.disk_usage raises,
\* DIAGNOSTICS_FILE cannot be written on an offline host
DiagnosticsCases ==
  { <<"none", FALSE, TRUE>>, <<"none", TRUE, TRUE>>, <<"none", FALSE, FALSE>>,
    <<"disk_usage", FALSE, TRUE>>, <<"save", FALSE, FALSE>> }

MainDiagnostics ==
  /\ pc = "m_diagnostics"
  /\ \E c \in DiagnosticsCases : run_system_diagnostics(c[1], c[2], c[3])
  /\ pc' = "m_validate"
  /\ UNCHANGED <<retries, orchestrator, max_attempts, attempt, i, proc, orphans,
                 installation_success, history>>

\* ------------------------------------------------------------------------
\* verify_installer_comprehensive
\* ------------------------------------------------------------------------
\* file_size < 100
MinInstallerSize == 100
\* len(markers_found) < 2
MinMarkers == 2

\* a validator for which a suspiciously small file is fatal
InstallerValidNeedsSize(f) ==
  f.exists /\ f.readable /\ f.decodable /\ f.size >= MinInstallerSize

\* the value verify_installer_comprehensive returns for the file f.
\* checks["is_batch_file"] (line 233) is a recorded fact no branch reads.
InstallerValid(f) == f.exists /\ f.readable /\ f.decodable

verify_installer_comprehensive(f) ==
  LET st1 == add_step(steps, "Comprehensive installer verification", 0,
                      "RUNNING", NoMsg, DefaultAttempt)
      w1 == IF f.size < MinInstallerSize
              THEN add_warning(warnings, "Installer Size",
                               Msg("Installer file very small", 0, f.size, ""),
                               "File may be corrupted or incomplete")
              ELSE warnings
      w2 == IF f.markers < MinMarkers
              THEN add_warning(w1, "Installer Content",
                               Msg("Missing expected batch file markers", 0, 0, ""),
                               "File may not be a valid installer")
              ELSE w1
  IN IF ~f.exists
       THEN /\ errors' = add_error(errors, retries, "Installer Verification",
                                   Msg("File not found", 0, 0, ""), "CRITICAL",
                                   "Ensure 'installer m3u builder.bat' is in cwd")
            /\ steps' = st1
            /\ UNCHANGED warnings
     ELSE IF ~f.readable
       THEN /\ errors' = add_error(errors, retries, "Installer Verification",
                                   Msg("exception", 0, 0, "PermissionError"),
                                   "HIGH", "")
            /\ steps' = st1
            /\ warnings' = w1
     ELSE IF ~f.decodable
       THEN /\ errors' = add_error(errors, retries, "Installer Encoding",
                                   Msg("Batch file has invalid encoding", 0, 0, ""),
                                   "HIGH", "Re-download the installer file")
            /\ steps' = st1
            /\ warnings' = w1
     ELSE /\ steps' = add_step(st1, "Comprehensive installer verification", 0,
                               "SUCCESS", Msg("Size, Markers", f.markers, f.size, ""),
                               DefaultAttempt)
          /\ warnings' = w2
          /\ UNCHANGED errors

\* a main that goes on after a failed validation
AfterValidationGoesOn(valid) == "m_folder"

\* "if not verify_installer_comprehensive(): ... input(...); return"
AfterValidation(valid) == IF valid THEN "m_folder" ELSE "m_exit_prompt"

\* Step 2 of main: the validation and the branch on its value
MainValidate ==
  /\ pc = "m_validate"
  /\ \E f \in InstallerFiles :
       /\ installer' = f
       /\ verify_installer_comprehensive(f)
       /\ pc' = AfterValidation(InstallerValid(f))
  /\ UNCHANGED <<retries, audit_success, audit_end_time, verification, snapshot,
                 exists_checks, reports, max_attempts, attempt, i, proc,
                 orphans, installation_success, history>>

\* input("Press Enter to exit...") and return, after a failed validation
MainExitPrompt(eof) ==
  /\ pc = "m_exit_prompt"
  /\ pc' = IF eof THEN "raised" ELSE "m_done"
  /\ UNCHANGED <<ledger, orchestrator, max_attempts, attempt, i, proc, orphans,
                 installation_success, history>>

\* Step 3 of main: rmtree, mkdir; an exception is recorded and main goes on
MainCreateFolder(fails) ==
  /\ pc = "m_folder"
  /\ LET st1 == add_step(steps, "Create installation folder", 0, "RUNNING",
                         NoMsg, DefaultAttempt)
     IN IF fails
          THEN /\ errors' = add_error(errors, retries, "Folder Creation",
                                      Msg("exception", 0, 0, "OSError"), "HIGH", "")
               /\ steps' = add_step(st1, "Create installation folder", 0,
                                    "FAILED", Msg("exception", 0, 0, "OSError"),
                                    DefaultAttempt)
          ELSE /\ steps' = add_step(st1, "Create installation folder", 0,
                                    "SUCCESS", Msg("Created", 0, 0, ""),
                                    DefaultAttempt)
               /\ UNCHANGED errors
  /\ pc' = "m_confirm"
  /\ UNCHANGED <<warnings, retries, orchestrator, max_attempts, attempt, i,
                 proc, orphans, installation_success, history>>

\* input("Proceed with enhanced installation?"): yes calls
\* run_installer_with_retries(max_attempts=3), anything else returns, and a
\* closed stdin raises EOFError
MainConfirm(choice) ==
  /\ pc = "m_confirm"
  /\ IF choice = "EOF"
       THEN pc' = "raised" /\ UNCHANGED max_attempts
     ELSE IF choice \in {"y", "yes"}
       THEN pc' = "r_for" /\ max_attempts' = MainMaxAttempts
     ELSE pc' = "m_done" /\ UNCHANGED max_attempts
  /\ UNCHANGED <<ledger, orchestrator, attempt, i, proc, orphans,
                 installation_success, history>>

\* ------------------------------------------------------------------------
\* verify_installation_comprehensive
\* ------------------------------------------------------------------------
\* "HIGH" if missing_count > 5 else "MEDIUM"
MissingHighThreshold == 5

\* ">= 5": one missing file too early
MissingSeverityFromFive(missing_count) ==
  IF missing_count >= MissingHighThreshold THEN "HIGH" ELSE "MEDIUM"

MissingSeverity(missing_count) ==
  IF missing_count > MissingHighThreshold THEN "HIGH" ELSE "MEDIUM"

\* the manifest entries 1..k classified against the files of the snapshot
RECURSIVE FilesFound(_, _)
FilesFound(files, k) ==
  IF k = 0 THEN <<>>
  ELSE IF files[k] # "absent"
    THEN Append(FilesFound(files, k - 1),
                [path |-> EXPECTED_FILES[k], is_empty |-> files[k] = "empty"])
    ELSE FilesFound(files, k - 1)

\* a classification that lists a zero-byte file as missing
RECURSIVE FilesMissingCountsEmpty(_, _)
FilesMissingCountsEmpty(files, k) ==
  IF k = 0 THEN <<>>
  ELSE IF files[k] \in {"absent", "empty"}
    THEN Append(FilesMissingCountsEmpty(files, k - 1), EXPECTED_FILES[k])
    ELSE FilesMissingCountsEmpty(files, k - 1)

RECURSIVE FilesMissing(_, _)
FilesMissing(files, k) ==
  IF k = 0 THEN <<>>
  ELSE IF files[k] = "absent"
    THEN Append(FilesMissing(files, k - 1), EXPECTED_FILES[k])
    ELSE FilesMissing(files, k - 1)

RECURSIVE FilesPartial(_, _)
FilesPartial(files, k) ==
  IF k = 0 THEN <<>>
  ELSE IF files[k] = "empty"
    THEN Append(FilesPartial(files, k - 1), EXPECTED_FILES[k])
    ELSE FilesPartial(files, k - 1)

\* one "File Content" warning per empty file, in manifest order
RECURSIVE EmptyWarnings(_, _, _)
EmptyWarnings(warns, files, k) ==
  IF k = 0 THEN warns
  ELSE IF files[k] = "empty"
    THEN add_warning(EmptyWarnings(warns, files, k - 1), "File Content",
                     Msg("Empty file", k, 0, ""),
                     "File was created but contains no data")
    ELSE EmptyWarnings(warns, files, k - 1)

\* install_size_bytes (the sum over rglob) is only reported and is left out;
\* a directory that cannot be walked makes that loop raise
verify_installation_comprehensive(snap) ==
  LET K == Len(EXPECTED_FILES)
      st1 == add_step(steps, "Comprehensive installation verification", 0,
                      "RUNNING", NoMsg, DefaultAttempt)
      found == FilesFound(snap.files, K)
      missing == FilesMissing(snap.files, K)
      partial == FilesPartial(snap.files, K)
      e1 == IF Len(missing) > 0
              THEN add_error(errors, retries, "File Verification",
                             Msg("files missing, files empty", Len(missing),
                                 Len(partial), ""),
                             MissingSeverity(Len(missing)),
                             "Check network connection and GitHub availability")
              ELSE errors
      e2 == IF Len(found) = 0
              THEN add_error(e1, retries, "Installation",
                             Msg("No expected files were installed", 0, 0, ""),
                             "CRITICAL",
                             "The installer may be downloading to wrong location or failing completely")
              ELSE e1
  IN IF ~snap.dir
       THEN /\ errors' = add_error(errors, retries, "Installation Directory",
                                   Msg("Installation directory not created", 0, 0, ""),
                                   "CRITICAL",
                                   "The installer may have failed at folder creation step")
            /\ steps' = st1
            /\ verification' = [NoVerification EXCEPT !.done = TRUE]
            /\ UNCHANGED <<warnings, exists_checks>>
     ELSE IF ~snap.walkable
       THEN /\ errors' = add_error(errors, retries, "Installation Verification",
                                   Msg("exception", 0, 0, "PermissionError"),
                                   "HIGH", "")
            /\ steps' = st1
            /\ verification' = [NoVerification EXCEPT !.done = TRUE]
            /\ UNCHANGED <<warnings, exists_checks>>
     ELSE /\ errors' = e2
          /\ warnings' = EmptyWarnings(warnings, snap.files, K)
          /\ steps' = add_step(st1, "Comprehensive installation verification", 0,
                               IF Len(missing) = 0 THEN "SUCCESS" ELSE "WARNING",
                               Msg("Files found", Len(found), K, ""),
                               DefaultAttempt)
          /\ exists_checks' = exists_checks + K
          /\ verification' = [done |-> TRUE, files_found |-> found,
                              files_missing |-> missing,
                              files_partial |-> partial,
                              total_expected |-> K]

\* Step 5 of main, after run_installer_with_retries returned
MainVerify ==
  /\ pc = "r_return"
  /\ \E snap \in Snapshots :
       /\ snapshot' = snap
       /\ verify_installation_comprehensive(snap)
  /\ pc' = "m_report"
  /\ UNCHANGED <<retries, audit_success, audit_end_time, installer, reports,
                 max_attempts, attempt, i, proc, orphans, installation_success,
                 history>>

\* audit["success"] = installation_success and len(files_missing) == 0
OverallSuccess ==
  installation_success = "True" /\ Len(verification.files_missing) = 0

\* the verdict and Step 6 of main
MainReport ==
  /\ pc = "m_report"
  /\ audit_success' = OverallSuccess
  /\ generate_comprehensive_report(errors, OverallSuccess)
  /\ pc' = "m_view"
  /\ UNCHANGED <<ledger, installer, verification, snapshot, exists_checks,
                 max_attempts, attempt, i, proc, orphans, installation_success,
                 history>>

\* input() before the report is printed
MainView(eof) ==
  /\ pc = "m_view"
  /\ pc' = IF eof THEN "raised" ELSE "m_done"
  /\ UNCHANGED <<ledger, orchestrator, max_attempts, attempt, i, proc, orphans,
                 installation_success, history>>

\* except Exception as e: add_error "Main Process", the report, the prompt
MainExcept ==
  /\ pc = "raised"
  /\ LET errs == add_error(errors, retries, "Main Process",
                           Msg("exception", 0, 0, "EOFError"), "CRITICAL", "")
     IN /\ errors' = errs
        /\ generate_comprehensive_report(errs, audit_success)
  /\ pc' = "m_done"
  /\ UNCHANGED <<warnings, retries, steps, audit_success, installer,
                 verification, snapshot, exists_checks, max_attempts, attempt,
                 i, proc, orphans, installation_success, history>>

MainStep ==
  \/ MainDiagnostics
  \/ MainValidate
  \/ \E eof \in BOOLEAN : MainExitPrompt(eof)
  \/ \E fails \in BOOLEAN : MainCreateFolder(fails)
  \/ \E choice \in {"y", "n", "EOF"} : MainConfirm(choice)
  \/ MainVerify
  \/ MainReport
  \/ \E eof \in BOOLEAN : MainView(eof)
  \/ MainExcept

Init ==
  /\ InitLedger
  /\ InitOrchestrator
  /\ InitRunnerState
  /\ max_attempts = 0
  /\ pc = "m_diagnostics"

Next == MainStep \/ RunnerStep \/ Environment

Spec == Init /\ [][Next]_vars /\ WF_vars(MainStep \/ RunnerStep)

\* ------------------------------------------------------------------------
\* A client of the module: it fills the ledger and the step log through
\* add_error, add_warning and add_step, sets audit["success"], and calls
\* generate_comprehensive_report twice in a row
\* ------------------------------------------------------------------------
\* <<category, severity>> of the errors the client records
ClientErrors ==
  { <<"Network", "HIGH">>, <<"File Verification", "MEDIUM">>,
    <<"Installation", "CRITICAL">> }
ClientWarnings == {"Disk Space", "File Content"}
ClientStatuses == {"SUCCESS", "FAILED"}

ClientAddError(c) ==
  /\ pc = "c_fill"
  /\ Len(errors) < MaxRecords
  /\ errors' = add_error(errors, retries, c[1], Msg("error", 0, 0, ""), c[2], "")
  /\ UNCHANGED <<warnings, retries, steps, orchestrator, pc, max_attempts,
                 attempt, i, proc, orphans, installation_success, history>>

ClientAddWarning(category) ==
  /\ pc = "c_fill"
  /\ Len(warnings) < MaxRecords
  /\ warnings' = add_warning(warnings, category, Msg("warning", 0, 0, ""), "")
  /\ UNCHANGED <<errors, retries, steps, orchestrator, pc, max_attempts,
                 attempt, i, proc, orphans, installation_success, history>>

ClientAddStep(status) ==
  /\ pc = "c_fill"
  /\ Len(steps) < MaxRecords
  /\ steps' = add_step(steps, "step", 0, status, NoMsg, DefaultAttempt)
  /\ UNCHANGED <<errors, warnings, retries, orchestrator, pc, max_attempts,
                 attempt, i, proc, orphans, installation_success, history>>

\* audit["success"] = False
ClientSetFailure ==
  /\ pc = "c_fill"
  /\ audit_success
  /\ audit_success' = FALSE
  /\ UNCHANGED <<ledger, audit_end_time, installer, verification, snapshot,
                 exists_checks, reports, pc, max_attempts, attempt, i, proc,
                 orphans, installation_success, history>>

\* generate_comprehensive_report(), the first and the second call
ClientReport ==
  /\ pc \in {"c_fill", "c_once"}
  /\ generate_comprehensive_report(errors, audit_success)
  /\ pc' = IF pc = "c_fill" THEN "c_once" ELSE "c_twice"
  /\ UNCHANGED <<ledger, audit_success, installer, verification, snapshot,
                 exists_checks, max_attempts, attempt, i, proc, orphans,
                 installation_success, history>>

InitReport ==
  /\ InitLedger
  /\ InitOrchestrator
  /\ InitRunnerState
  /\ max_attempts = 0
  /\ pc = "c_fill"

NextReport ==
  \/ \E c \in ClientErrors : ClientAddError(c)
  \/ \E category \in ClientWarnings : ClientAddWarning(category)
  \/ \E status \in ClientStatuses : ClientAddStep(status)
  \/ ClientSetFailure
  \/ ClientReport

SpecReport == InitReport /\ [][NextReport]_vars /\ WF_vars(NextReport)

\* ------------------------------------------------------------------------
\* Properties of run_installer_with_retries
\* ------------------------------------------------------------------------
\* the steps the runner recorded, and its error records
RunnerSteps == SelectSeq(steps, LAMBDA s : s.name = RunnerStepName)
ExecErrors == SelectSeq(errors, LAMBDA e : e.category = "Installer Execution")

\* number of runner steps of attempt k with status st
StepCount(k, st) ==
  Cardinality({j \in 1..Len(steps) : /\ steps[j].name = RunnerStepName
                                     /\ steps[j].n = k
                                     /\ steps[j].status = st})
StatusCount(st) ==
  Cardinality({j \in 1..Len(steps) : /\ steps[j].name = RunnerStepName
                                     /\ steps[j].status = st})
Finished == Len(outcomes)
AllOutcomes(o) == \A k \in 1..Finished : outcomes[k] = o
Returned == pc = "r_return"

\* C1: with max_attempts = N >= 1 and every attempt so far ended by a
\* non-zero exit code, the runner returns exactly when N attempts are over,
\* and then it has launched the installer N times, recorded N FAILED steps,
\* one per attempt, the last recorded step being FAILED, and returned False.
C1_AllNonZeroFails ==
  (max_attempts >= 1 /\ AllOutcomes("NONZERO_EXIT")) =>
     /\ Finished <= max_attempts
     /\ Returned <=> Finished = max_attempts
     /\ Returned =>
          /\ installation_success = "False"
          /\ launches = max_attempts
          /\ StatusCount("FAILED") = max_attempts
          /\ \A k \in 1..max_attempts : StepCount(k, "FAILED") = 1
          /\ RunnerSteps[Len(RunnerSteps)].status = "FAILED"

C1_Witness ==
  /\ max_attempts >= 2
  /\ Finished = max_attempts
  /\ AllOutcomes("NONZERO_EXIT")
  /\ Returned /\ installation_success = "False"

\* C2: if attempt k is the first to exit with code 0, the runner has launched
\* the installer exactly k times, its last step is the SUCCESS step of
\* attempt k, it has returned True, and it has neither started attempt k+1
\* nor waited a backoff after the success.
C2_FirstSuccessStops ==
  \A k \in 1..Finished : outcomes[k] = "SUCCESS" =>
     /\ k = Finished
     /\ k <= max_attempts
     /\ attempt = k
     /\ launches = k
     /\ Returned /\ installation_success = "True"
     /\ StatusCount("RUNNING") = k
     /\ RunnerSteps[Len(RunnerSteps)].status = "SUCCESS"
     /\ RunnerSteps[Len(RunnerSteps)].n = k
     /\ StatusCount("SUCCESS") = 1
     /\ Len(backoff_log) = k - 1
     /\ \A j \in 1..Len(backoff_log) : backoff_log[j][1] = j

C2_Witness ==
  /\ Finished = 2
  /\ outcomes[1] # "SUCCESS"
  /\ outcomes[2] = "SUCCESS"
  /\ installation_success = "True"


\* TIMEOUT read as NONZERO_EXIT
Norm(o) == IF o = "TIMEOUT" THEN "NONZERO_EXIT" ELSE o

\* What the spec's state machine leaves behind after attempts 1..k, as a
\* function of their outcomes with TIMEOUT read as NONZERO_EXIT: the runner's
\* steps as <<attempt, status>>, its errors as <<severity, retry_count,
\* suggestion>>, and its backoffs.
RECURSIVE ExpectedSteps(_)
ExpectedSteps(k) ==
  IF k = 0 THEN <<>>
  ELSE ExpectedSteps(k - 1) \o << <<k, "RUNNING">> >> \o
       (CASE Norm(outcomes[k]) = "SUCCESS" -> << <<k, "SUCCESS">> >>
          [] Norm(outcomes[k]) = "NONZERO_EXIT" -> << <<k, "FAILED">> >>
          [] OTHER -> <<>>)

RECURSIVE ExpectedErrors(_)
ExpectedErrors(k) ==
  IF k = 0 THEN <<>>
  ELSE ExpectedErrors(k - 1) \o
       (CASE Norm(outcomes[k]) = "SUCCESS" -> <<>>
          [] Norm(outcomes[k]) = "NONZERO_EXIT" ->
               << <<IF k = max_attempts THEN "HIGH" ELSE "MEDIUM", k,
                    IF k < max_attempts THEN "Retrying"
                                        ELSE "All retries exhausted">> >>
          [] OTHER ->
               << <<IF k = max_attempts THEN "HIGH" ELSE "MEDIUM", k, "">> >>)

RECURSIVE ExpectedBackoffs(_)
ExpectedBackoffs(k) ==
  IF k = 0 THEN <<>>
  ELSE ExpectedBackoffs(k - 1) \o
       (IF Norm(outcomes[k]) # "SUCCESS" /\ k < max_attempts
          THEN << <<k, 5>> >> ELSE <<>>)

StepShape == [j \in 1..Len(RunnerSteps) |->
                <<RunnerSteps[j].n, RunnerSteps[j].status>>]
ErrorShape == [j \in 1..Len(ExecErrors) |->
                 <<ExecErrors[j].severity, ExecErrors[j].retry_count,
                   ExecErrors[j].suggestion>>]
SomeSuccess == \E k \in 1..Finished : outcomes[k] = "SUCCESS"

\* C3: an attempt whose child had not exited when the bounded wait was over
\* (proc.poll() returned None at line 389) is classified "Timed out" and is
\* otherwise handled as a non-zero exit: steps, errors (severity, retry
\* count, suggestion), backoffs, the number of attempts used and the value
\* returned are those of the same run with every timeout replaced by a
\* non-zero exit.
C3_TimeoutLikeNonZeroExit ==
  /\ attempt \in {Finished, Finished + 1}
  /\ StepShape = ExpectedSteps(Finished) \o
                   (IF attempt > Finished THEN << <<attempt, "RUNNING">> >>
                                          ELSE <<>>)
  /\ ErrorShape = ExpectedErrors(Finished)
  /\ backoff_log = ExpectedBackoffs(Finished)
  /\ max_attempts >= 1 =>
       (Returned <=> (SomeSuccess \/ Finished = max_attempts))
  /\ installation_success =
       IF SomeSuccess THEN "True" ELSE IF Returned THEN "False" ELSE "none"
  /\ \A j \in 1..Len(RunnerSteps) : RunnerSteps[j].status = "FAILED" =>
       (RunnerSteps[j].details.text = "Timed out"
          <=> outcomes[RunnerSteps[j].n] = "TIMEOUT")
  /\ \A j \in 1..Len(ExecErrors) : outcomes[j] # "CRASH" =>
       (ExecErrors[j].error.text = "Timed out" <=> outcomes[j] = "TIMEOUT")

C3_Witness ==
  /\ Returned
  /\ Finished = 3
  /\ outcomes[1] = "TIMEOUT"
  /\ outcomes[2] = "NONZERO_EXIT"
  /\ outcomes[3] = "TIMEOUT"

\* C4 (bounds): at most max_attempts launches, fewer than max_wait completed
\* polls whenever another poll is due, and the backoffs are exactly one
\* 5-unit wait after each failed attempt that is not the last allowed one.
C4_Bounded ==
  /\ launches <= max_attempts
  /\ attempt <= max_attempts
  /\ i <= max_wait
  /\ pc = "r_wait" => i < max_wait
  /\ Len(backoff_log) =
       Cardinality({k \in 1..Finished : outcomes[k] # "SUCCESS" /\ k < max_attempts})
  /\ \A j \in 1..Len(backoff_log) :
       /\ backoff_log[j] = <<j, 5>>
       /\ j < max_attempts
       /\ j <= Finished /\ outcomes[j] # "SUCCESS"

\* C4: every run of the runner terminates, whatever the child does, within
\* the bounds above.
C4_TerminatesBounded == []C4_Bounded /\ <>Returned

C4_Witness ==
  /\ Returned
  /\ Finished = 3
  /\ outcomes[1] = "TIMEOUT"
  /\ outcomes[2] = "CRASH"
  /\ outcomes[3] = "NONZERO_EXIT"
  /\ Len(backoff_log) = 2

\* C5: every finished attempt k left exactly one record: one Installer
\* Execution error (of retry count k) or one SUCCESS step, never both.
C5_OneRecordPerAttempt ==
  /\ Len(ExecErrors) + StatusCount("SUCCESS") = Finished
  /\ \A k \in 1..Finished :
       Cardinality({j \in 1..Len(ExecErrors) : ExecErrors[j].retry_count = k})
         + StepCount(k, "SUCCESS") = 1

C5_Witness ==
  /\ Finished = 3
  /\ outcomes[1] = "CRASH"
  /\ outcomes[2] = "TIMEOUT"
  /\ outcomes[3] = "SUCCESS"

\* C6: every failed attempt (non-zero exit, timeout or launch exception) has
\* a FAILED step in the step log.
C6_FailedStepPerFailure ==
  \A k \in 1..Finished : outcomes[k] # "SUCCESS" => StepCount(k, "FAILED") >= 1

\* C7: the j-th Installer Execution error is the one of attempt j, and its
\* severity is HIGH exactly when j = max_attempts, MEDIUM otherwise, for
\* every kind of failure; N failed attempts leave N-1 MEDIUM errors and one
\* HIGH error, the last.
C7_SeverityEscalatesOnLast ==
  /\ \A j \in 1..Len(ExecErrors) :
       /\ j <= Finished /\ outcomes[j] # "SUCCESS"
       /\ ExecErrors[j].error.n = j
       /\ ExecErrors[j].severity = "HIGH" <=> j = max_attempts
       /\ ExecErrors[j].severity = "MEDIUM" <=> j # max_attempts
  /\ (max_attempts >= 1 /\ Returned /\ ~SomeSuccess) =>
       /\ Len(ExecErrors) = max_attempts
       /\ Cardinality({j \in 1..Len(ExecErrors) :
                         ExecErrors[j].severity = "HIGH"}) = 1
       /\ ExecErrors[Len(ExecErrors)].severity = "HIGH"

C7_Witness ==
  /\ Returned
  /\ Finished = 3
  /\ outcomes[1] = "NONZERO_EXIT"
  /\ outcomes[2] = "TIMEOUT"
  /\ outcomes[3] = "CRASH"
  /\ ExecErrors[3].severity = "HIGH"

\* C8: no exception of a launch leaves the runner; a crashed attempt counts
\* as one attempt, is followed by another attempt while attempt <
\* max_attempts, and if every attempt crashed the caller gets False.
C8_CrashNeverPropagates ==
  /\ pc # "raised"
  /\ launches = Finished + (IF pc \in {"r_wait", "r_check"} THEN 1 ELSE 0)
  /\ (Finished >= 1 /\ outcomes[Finished] = "CRASH") =>
       IF Finished < max_attempts
         THEN /\ installation_success = "none"
              /\ pc \in {"r_for", "r_popen", "r_wait", "r_check"}
              /\ attempt \in {Finished, Finished + 1}
         ELSE Returned /\ installation_success = "False"
  /\ (max_attempts >= 1 /\ Returned /\ AllOutcomes("CRASH")) =>
       /\ Finished = max_attempts
       /\ installation_success = "False"

C8_Witness ==
  /\ Returned
  /\ Finished = 3
  /\ AllOutcomes("CRASH")
  /\ Len(errors) = 3

\* C9: the retry counter of Installer Execution equals the number of RUNNING
\* steps the runner recorded (and the number of attempts started).
C9_RetryCounterCountsRunning ==
  /\ get_retry_count(retries, "Installer Execution") = StatusCount("RUNNING")
  /\ get_retry_count(retries, "Installer Execution") = attempt

C9_Witness ==
  /\ Returned
  /\ get_retry_count(retries, "Installer Execution") = 3
  /\ outcomes = <<"TIMEOUT", "CRASH", "SUCCESS">>


\* ------------------------------------------------------------------------
\* Properties of the orchestrator
\* ------------------------------------------------------------------------
\* C10: the verdict of every report that was generated is true exactly when
\* run_installer_with_retries returned True and the verification result has
\* no missing manifest file.
C10_VerdictIsSuccessAndNoMissing ==
  \A j \in 1..Len(reports) :
    reports[j].success <=>
      /\ installation_success = "True"
      /\ verification.done
      /\ Len(verification.files_missing) = 0


\* ------------------------------------------------------------------------
\* Properties of verify_installation_comprehensive
\* ------------------------------------------------------------------------
ErrorsOf(category) == SelectSeq(errors, LAMBDA e : e.category = category)
WarningsOf(category) == SelectSeq(warnings, LAMBDA w : w.category = category)
ManifestSize == Len(EXPECTED_FILES)
\* the manifest entries that exist in the install directory, empty or not
PresentCount ==
  Cardinality({k \in 1..ManifestSize : snapshot.files[k] # "absent"})
EmptyCount ==
  Cardinality({k \in 1..ManifestSize : snapshot.files[k] = "empty"})
\* the verification ran and went through its per-file loop
Classified == verification.done /\ snapshot.dir /\ snapshot.walkable

\* C11: when the install directory does not exist, the result of the
\* verification has no found file and lists all K manifest paths as missing,
\* one CRITICAL error was recorded, and no per-file existence check was made.
C11_MissingRootListsAllMissing ==
  (verification.done /\ ~snapshot.dir) =>
     /\ Len(verification.files_found) = 0
     /\ Len(verification.files_missing) = ManifestSize
     /\ Len(ErrorsOf("Installation Directory")) = 1
     /\ ErrorsOf("Installation Directory")[1].severity = "CRITICAL"
     /\ exists_checks = 0

\* C12: when the install directory exists, can be read, and holds M < K of
\* the manifest entries, the result has M found files (the zero-byte ones
\* among them, each with an "Empty file" warning) and K - M missing ones,
\* and the ledger holds exactly one File Verification error.
C12_FoundAndMissingCounts ==
  (Classified /\ PresentCount < ManifestSize) =>
     /\ Len(verification.files_found) = PresentCount
     /\ Len(verification.files_missing) = ManifestSize - PresentCount
     /\ \A j \in 1..Len(verification.files_missing) :
          \E k \in 1..ManifestSize :
            /\ EXPECTED_FILES[k] = verification.files_missing[j]
            /\ snapshot.files[k] = "absent"
     /\ Len(verification.files_partial) = EmptyCount
     /\ Cardinality({j \in 1..Len(verification.files_found) :
                       verification.files_found[j].is_empty}) = EmptyCount
     /\ Len(WarningsOf("File Content")) = EmptyCount
     /\ Len(ErrorsOf("File Verification")) = 1
     /\ ErrorsOf("File Verification")[1].error.n = ManifestSize - PresentCount

C12_Witness ==
  /\ Classified
  /\ PresentCount = ManifestSize - 5
  /\ EmptyCount = 1
  /\ Len(verification.files_found) = ManifestSize - 5
  /\ Len(ErrorsOf("File Verification")) = 1

\* C13: after the classification, there is one File Verification error of
\* severity HIGH when more than 5 files are missing, one of severity MEDIUM
\* when 1 to 5 are missing, none when no file is missing; and there is one
\* CRITICAL Installation error, after the File Verification error, exactly
\* when no file was found.
C13_SeverityByMissingCount ==
  Classified =>
    LET missing_count == Len(verification.files_missing)
        found_count == Len(verification.files_found)
        fv == ErrorsOf("File Verification")
        inst == ErrorsOf("Installation")
    IN /\ missing_count = 0 => fv = <<>>
       /\ missing_count > 0 => Len(fv) = 1
       /\ missing_count \in 1..5 => fv[1].severity = "MEDIUM"
       /\ missing_count > 5 => fv[1].severity = "HIGH"
       /\ Len(inst) = (IF found_count = 0 THEN 1 ELSE 0)
       /\ found_count = 0 =>
            /\ inst[1].severity = "CRITICAL"
            /\ Len(fv) = 1
            /\ \E j \in 1..(Len(errors) - 1) :
                 errors[j] = fv[1] /\ errors[j + 1] = inst[1]

C13_Witness ==
  /\ Classified
  /\ Len(verification.files_missing) = 5
  /\ ErrorsOf("File Verification")[1].severity = "MEDIUM"
  /\ ErrorsOf("Installation") = <<>>

\* ------------------------------------------------------------------------
\* Properties of verify_installer_comprehensive and of main
\* ------------------------------------------------------------------------
\* main is just past "if not verify_installer_comprehensive()"
JustValidated == pc \in {"m_folder", "m_exit_prompt"}
ValidatorReturnedTrue == pc = "m_folder"
ValidatorErrors ==
  SelectSeq(errors, LAMBDA e : e.category \in {"Installer Verification",
                                               "Installer Encoding"})

\* C14: the validator returns true exactly when the installer file exists
\* and can be decoded as text; a missing file leaves one CRITICAL error and
\* false, a file that cannot be decoded one HIGH error and false; a size
\* below 100 bytes (0 included) and fewer than 2 markers leave one warning
\* each and change neither the value returned nor the errors.
C14_ValidatorFatalChecks ==
  JustValidated =>
    /\ ValidatorReturnedTrue <=> (installer.exists /\ installer.decodable)
    /\ ~installer.exists =>
         /\ Len(ValidatorErrors) = 1
         /\ ValidatorErrors[1].severity = "CRITICAL"
         /\ ~ValidatorReturnedTrue
    /\ (installer.exists /\ ~installer.decodable) =>
         /\ Len(ValidatorErrors) = 1
         /\ ValidatorErrors[1].severity = "HIGH"
         /\ ~ValidatorReturnedTrue
    /\ ValidatorReturnedTrue => ValidatorErrors = <<>>
    /\ Len(WarningsOf("Installer Size")) =
         (IF installer.exists /\ installer.size < 100 THEN 1 ELSE 0)
    /\ Len(WarningsOf("Installer Content")) =
         (IF ValidatorReturnedTrue /\ installer.markers < 2 THEN 1 ELSE 0)

C14_Witness ==
  /\ JustValidated
  /\ ValidatorReturnedTrue
  /\ installer.size = 0
  /\ installer.markers = 0
  /\ Len(WarningsOf("Installer Size")) = 1
  /\ Len(WarningsOf("Installer Content")) = 1

\* C15: every run of main that has ended has produced the report.
C15_ReportAlwaysProduced == pc = "m_done" => Len(reports) >= 1

\* the validation ran and returned false
ValidationFailed ==
  /\ pc \notin {"m_diagnostics", "m_validate"}
  /\ ~InstallerValid(installer)
FolderSteps == SelectSeq(steps, LAMBDA st : st.name = "Create installation folder")
\* the user answered yes: main called run_installer_with_retries(3)
Confirmed == max_attempts = MainMaxAttempts

\* C16: after a validation that returned false, main only prompts and ends:
\* no folder step, no launch, an Installer Execution retry counter of 0 and
\* no file verification; and the installer is launched, and the runner
\* entered, only after a validation that returned true and a confirmation.
C16_ValidationShortCircuits ==
  /\ ValidationFailed =>
       /\ pc \in {"m_exit_prompt", "raised", "m_done"}
       /\ FolderSteps = <<>>
       /\ launches = 0
       /\ attempt = 0
       /\ get_retry_count(retries, "Installer Execution") = 0
       /\ ~verification.done
       /\ exists_checks = 0
  /\ (launches > 0 \/ attempt > 0 \/ pc \in {"r_for", "r_popen", "r_wait", "r_check"}) =>
       /\ InstallerValid(installer)
       /\ Confirmed
       /\ Len(FolderSteps) = 2

C16_Witness ==
  /\ ValidationFailed
  /\ installer.exists
  /\ pc = "m_done"
  /\ reports = <<>>

\* ------------------------------------------------------------------------
\* Properties of generate_comprehensive_report
\* ------------------------------------------------------------------------
\* C17: a call of generate_comprehensive_report leaves the ledger, the step
\* log and the retry counters unchanged, and the second of two calls in a
\* row builds the same report as the first.
C17_ReportIdempotent ==
  [][reports' # reports =>
       /\ UNCHANGED ledger
       /\ Len(reports') = 2 => reports'[2] = reports'[1]]_vars

\* ------------------------------------------------------------------------
\* Properties of the ledger and the step log
\* ------------------------------------------------------------------------
IsPrefix(s, t) == Len(s) <= Len(t) /\ SubSeq(t, 1, Len(s)) = s
\* what a warning record says
WarningContent(w) == <<w.category, w.warning, w.suggestion>>
ErrorContent(e) == <<e.category, e.error, e.suggestion>>

\* C18: in every step the errors, the warnings and the steps before it are
\* prefixes of those after it, and no error added by the step is a warning
\* the ledger held.
C18_AppendOnly ==
  [][/\ IsPrefix(errors, errors')
     /\ IsPrefix(warnings, warnings')
     /\ IsPrefix(steps, steps')
     /\ \A j \in (Len(errors) + 1)..Len(errors') :
          \A k \in 1..Len(warnings) :
            ErrorContent(errors'[j]) # WarningContent(warnings[k])]_vars

C18_Witness ==
  /\ pc = "m_done"
  /\ Len(errors) >= 4
  /\ Len(warnings) >= 3
  /\ Len(steps) >= 10

\* C19 (state): the counter is incremented before the launch it describes,
\* and the j-th Installer Execution error, the one of attempt j, carries
\* retry_count = j.
C19_CounterPrecedesAttempt ==
  /\ launches <= get_retry_count(retries, "Installer Execution")
  /\ pc = "r_popen" =>
       get_retry_count(retries, "Installer Execution") = launches + 1
  /\ \A j \in 1..Len(ExecErrors) :
       /\ ExecErrors[j].error.n = j
       /\ ExecErrors[j].retry_count = j

\* C19: the above in every state of a call on a fresh ledger, and no step
\* lowers a retry counter.
C19_RetryCountIsAttempt ==
  /\ []C19_CounterPrecedesAttempt
  /\ [][\A c \in Categories :
          get_retry_count(retries', c) >= get_retry_count(retries, c)]_vars

C19_Witness ==
  /\ Returned
  /\ Len(ExecErrors) = 3
  /\ ExecErrors[3].retry_count = 3
  /\ outcomes = <<"NONZERO_EXIT", "CRASH", "TIMEOUT">>

\* children the runner launched that are running: those left behind by
\* earlier attempts and the one of the current attempt
ChildrenAlive ==
  orphans + (IF pc \in {"r_wait", "r_check"} /\ ~proc.exited THEN 1 ELSE 0)

\* C20: at most one child the runner launched is alive at any time.
C20_AtMostOneChildAlive == ChildrenAlive <= 1

\* ------------------------------------------------------------------------
\* Properties of the step log and of the verdict
\* ------------------------------------------------------------------------
\* C21: every step the runner recorded, RUNNING, SUCCESS or FAILED, has its
\* attempt field equal to the number of the attempt that recorded it (the
\* number formatted into its name).
C21_StepAttemptIsAttemptNumber ==
  \A j \in 1..Len(RunnerSteps) : RunnerSteps[j].attempt = RunnerSteps[j].n

\* the report lists a CRITICAL Main Process error
ShowsMainProcessFailure(report) ==
  \E k \in 1..Len(report.critical) :
    /\ report.critical[k].category = "Main Process"
    /\ report.critical[k].severity = "CRITICAL"
Recommends(report, text) ==
  \E k \in 1..Len(report.recommendations) : report.recommendations[k] = text

\* C22: a report built while the ledger holds a CRITICAL Main Process error
\* has no success verdict and no "Installation completed successfully!"
\* recommendation.
C22_NoSuccessAfterMainFailure ==
  \A j \in 1..Len(reports) :
    ShowsMainProcessFailure(reports[j]) =>
      /\ ~reports[j].success
      /\ ~Recommends(reports[j], SuccessRecommendations[1])

\* the step of the same name: the attempt number is part of the name
SameStepName(a, b) == a.name = b.name /\ a.n = b.n

\* C23: when main has ended, every RUNNING step of the log is followed by a
\* step of the same name with status SUCCESS, WARNING or FAILED.
C23_NoDanglingStep ==
  pc = "m_done" =>
    \A j \in 1..Len(steps) : steps[j].status = "RUNNING" =>
      \E k \in (j + 1)..Len(steps) :
        /\ SameStepName(steps[k], steps[j])
        /\ steps[k].status \in {"SUCCESS", "WARNING", "FAILED"}

\* main is past "audit['success'] = ..." of a run that verified the files
FullRunJudged == verification.done /\ pc \in {"m_view", "raised", "m_done"}

\* C24: when the verdict of a full run is true, all K manifest files were
\* found.
C24_SuccessMeansAllFound ==
  (FullRunJudged /\ audit_success) =>
     /\ Len(verification.files_found) = ManifestSize
     /\ verification.total_expected = ManifestSize

=============================================================================
